---- MODULE Spec2Model ----
(***************************************************************************)
(* A model of libmatfile: the growable byte buffer of tape.c and the       *)
(* MAT-file element parser of matfile.c.                                   *)
(*                                                                         *)
(* Memory is a heap of blocks.  A pointer is the index of a block in the   *)
(* heap (NULL is 0); a pointer into a block is a record [blk, off].  Each  *)
(* block keeps its size in bytes, its contents and how many times it was   *)
(* released, so a double free is a block with frees = 2.                   *)
(*                                                                         *)
(* size_t values are kept as integers near 0 or near 2^64: a negative n    *)
(* stands for 2^64 + n.  Addition and subtraction modulo 2^64 are then the *)
(* integer operations, and only the unsigned comparison (ULT) differs.     *)
(***************************************************************************)
EXTENDS Integers, Sequences, FiniteSets, TLC

VARIABLES
    heap,       \* the allocator's blocks, in allocation order
    tape,       \* tape machine: the tape_t handle held by the caller
    ret,        \* tape machine: the value returned by the last tape call
    op,         \* tape machine: the last call made, with its arguments
    pushes,     \* tape machine: sizes pushed so far
    input,      \* parser: the bytes given to the parser and its environment
    parse,      \* parser: the state of parse_data_elements
    mat,        \* parser: the matfile_t made of the parse and what was done to it
    file        \* reader: the swap flag and what matfile_read made of the headers

tvars == <<tape, ret, op, pushes>>
pvars == <<input, parse, mat, file>>
vars == <<heap, tape, ret, op, pushes, input, parse, mat, file>>

----------------------------------------------------------------------------
(* Bounds of the model.                                                    *)

MaxCap == 2         \* initial capacities tried by the tape machine
MaxPush == 5        \* largest size passed to tape_push / tape_pop
MaxOps == 3         \* calls made on one tape
MaxPre == 1         \* elements put in front of the element under study
MaxList == 5        \* matrices in a file made of matrices only
MaxReads == 3       \* calls of matfile_read in one process

----------------------------------------------------------------------------
(* Program constants.                                                      *)

NULL == 0
NullPtr == [blk |-> 0, off |-> 0]   \* a null pointer into a block
Uninit == -1                \* a byte no one has written yet
SizeofTape == 24            \* sizeof(tape_t): a pointer and two size_t

----------------------------------------------------------------------------
(* Arithmetic and the allocator.                                           *)

\* Sequencing: v is computed once, and Then is applied to its value.
Let(v, Then(_)) == CHOOSE r \in {Then(x) : x \in {v}} : TRUE

ULT(a, b) == IF (a >= 0) = (b >= 0) THEN a < b ELSE a >= 0

Fresh(n, unit) == [i \in 1..(n \div unit) |-> Uninit]

Resized(val, n, unit) ==
    [i \in 1..(n \div unit) |-> IF i <= Len(val) THEN val[i] ELSE Uninit]

malloc(h, n, unit, val) ==
    Append(h, [size |-> n, unit |-> unit, val |-> val, frees |-> 0])

free(h, p) == IF p = NULL THEN h ELSE [h EXCEPT ![p].frees = @ + 1]

\* realloc that succeeds: the contents move to a new block of n bytes and
\* the old block is released.
realloc(h, p, n) ==
    malloc(free(h, p), n, h[p].unit, Resized(h[p].val, n, h[p].unit))

----------------------------------------------------------------------------
(* tape.c                                                                  *)

tape_create(h, length, unit) ==
    LET h1 == malloc(h, SizeofTape, SizeofTape,
                     [elems |-> NULL, cur_length |-> 0, max_length |-> 0])
        t  == Len(h1)
        h2 == malloc(h1, length, unit, Fresh(length, unit))
    IN  [heap |-> [h2 EXCEPT ![t].val = [elems |-> Len(h2),
                                          cur_length |-> 0,
                                          max_length |-> length]],
         tape |-> t]

tape_destroy(h, t) ==
    IF t = NULL THEN h
    ELSE free(free(h, h[t].val.elems), t)

\* tape_pop without the clamp.
tape_pop_unclamped(h, t, size) ==
    [h EXCEPT ![t].val.cur_length = @ - size]

tape_pop(h, t, size) ==
    LET T == h[t].val
    IN  [h EXCEPT ![t].val.cur_length =
            IF ULT(size, T.cur_length) THEN T.cur_length - size ELSE 0]

\* tape_push returning the cursor after the reservation instead of before.
tape_push_after(h, t, size, ok) ==
    LET T    == h[t].val
        grow == ULT(T.max_length, T.cur_length + size)
        max1 == IF grow THEN T.max_length * 2 ELSE T.max_length
        h1   == IF grow /\ ok THEN realloc(h, T.elems, max1) ELSE h
        el1  == IF ~grow THEN T.elems ELSE IF ok THEN Len(h1) ELSE NULL
    IN  IF el1 = NULL
        THEN [heap |-> [h1 EXCEPT ![t].val = [T EXCEPT !.elems = NULL,
                                                       !.max_length = max1]],
              ret  |-> NullPtr]
        ELSE [heap |-> [h1 EXCEPT ![t].val = [elems |-> el1,
                                              cur_length |-> T.cur_length + size,
                                              max_length |-> max1]],
              ret  |-> [blk |-> el1, off |-> T.cur_length + size]]

\* tape_push growing the buffer to what the reservation needs instead of
\* doubling it.
tape_push_fit(h, t, size, ok) ==
    LET T    == h[t].val
        grow == ULT(T.max_length, T.cur_length + size)
        max1 == IF grow THEN T.cur_length + size ELSE T.max_length
        h1   == IF grow /\ ok THEN realloc(h, T.elems, max1) ELSE h
        el1  == IF ~grow THEN T.elems ELSE IF ok THEN Len(h1) ELSE NULL
    IN  IF el1 = NULL
        THEN [heap |-> [h1 EXCEPT ![t].val = [T EXCEPT !.elems = NULL,
                                                       !.max_length = max1]],
              ret  |-> NullPtr]
        ELSE [heap |-> [h1 EXCEPT ![t].val = [elems |-> el1,
                                              cur_length |-> T.cur_length + size,
                                              max_length |-> max1]],
              ret  |-> [blk |-> el1, off |-> T.cur_length]]

\* `ok` is whether realloc succeeds when the tape has to grow.
tape_push(h, t, size, ok) ==
    LET T    == h[t].val
        grow == ULT(T.max_length, T.cur_length + size)
        max1 == IF grow THEN T.max_length * 2 ELSE T.max_length
        h1   == IF grow /\ ok THEN realloc(h, T.elems, max1) ELSE h
        el1  == IF ~grow THEN T.elems ELSE IF ok THEN Len(h1) ELSE NULL
    IN  IF el1 = NULL
        THEN [heap |-> [h1 EXCEPT ![t].val = [T EXCEPT !.elems = NULL,
                                                       !.max_length = max1]],
              ret  |-> NullPtr]
        ELSE [heap |-> [h1 EXCEPT ![t].val = [elems |-> el1,
                                              cur_length |-> T.cur_length + size,
                                              max_length |-> max1]],
              ret  |-> [blk |-> el1, off |-> T.cur_length]]

\* `how` is what realloc does when the buffer is shrunk: "ok" (a block of
\* cur_length bytes), "fail" (NULL, the buffer untouched), or, for a request
\* of zero bytes, "zero" (the buffer is released and NULL is returned, as
\* glibc does).
PurgeOutcomes(h, t) ==
    LET T == h[t].val
    IN  IF ~ULT(T.cur_length, T.max_length) THEN {"ok"}
        ELSE IF T.cur_length = 0 THEN {"ok", "fail", "zero"}
        ELSE {"ok", "fail"}

tape_purge(h, t, how) ==
    LET T      == h[t].val
        shrink == ULT(T.cur_length, T.max_length)
        h1     == IF ~shrink \/ how = "fail" THEN h
                  ELSE IF how = "zero" THEN free(h, T.elems)
                  ELSE realloc(h, T.elems, T.cur_length)
        elements == IF ~shrink THEN T.elems
                    ELSE IF how = "ok" THEN Len(h1) ELSE NULL
    IN  IF shrink /\ elements = NULL
        THEN [heap |-> tape_destroy(h1, t), ret |-> NullPtr]
        ELSE [heap |-> tape_destroy(
                           [h1 EXCEPT ![t].val = [elems |-> NULL,
                                                  cur_length |-> 0,
                                                  max_length |-> 0]], t),
              ret  |-> [blk |-> elements, off |-> 0]]

----------------------------------------------------------------------------
(* matfile.h: the type model.                                              *)

MF_ALIGNMENT == 8
MATFILE_ALIGNMENT == MF_ALIGNMENT
SizeofTag == 8              \* sizeof(matfile_data_element_small_t)
SizeofElement == 24         \* sizeof(matfile_data_element_t)
SizeofArray == 56           \* sizeof(matfile_array_t)
SizeofPointer == 8          \* sizeof(char *)

MFDT_INT8 == 1
MFDT_INT32 == 5
MFDT_UINT32 == 6
MFDT_SINGLE == 7
MFDT_DOUBLE == 9
MFDT_INT64 == 12
MFDT_UINT64 == 13
MFDT_MATRIX == 14
MFDT_COMPRESSED == 15
MFDT_UTF32 == 18
\* The bound of the type range taken inclusive: type <= MFDT_COUNT.
MFDT_COUNT_inclusive == MFDT_UTF32 + 2
MFDT_COUNT == 19

MFMX_CELL_CLASS == 1
MFMX_SPARSE_CLASS == 5
MFMX_DOUBLE_CLASS == 6
MFMX_UINT64_CLASS == 15

\* data_type_size[type - 1]
data_type_size(type) ==
    CASE type \in {1, 2} -> 1
      [] type \in {3, 4} -> 2
      [] type \in {5, 6, 7} -> 4
      [] type \in {9, 12, 13} -> 8
      [] OTHER -> 0

\* An element as the parser keeps it: the 32-bit type and size words of the
\* large view, the data pointer and the element count.  The small view reads
\* the first word as (size:16, type:16), the machine being little-endian.
SmallSize(el) == el.type % 65536
SmallType(el) == el.type \div 65536

IS_SMALL(size, type) == size # 0 /\ type # 0

\* matfile_is_small with either field non-zero instead of both.
matfile_is_small_either(el) == SmallSize(el) # 0 \/ SmallType(el) # 0

matfile_is_small(el) == IS_SMALL(SmallSize(el), SmallType(el))

matfile_is_large(el) == ~IS_SMALL(SmallSize(el), SmallType(el))

matfile_is_numerical(type) ==
    \/ (type >= MFDT_INT8 /\ type <= MFDT_SINGLE)
    \/ type = MFDT_DOUBLE
    \/ type = MFDT_INT64
    \/ type = MFDT_UINT64

----------------------------------------------------------------------------
(* Bytes, words and C integer arithmetic.                                  *)

\* The little-endian value of four bytes.
U32(b) == b[1] + 256 * b[2] + 65536 * b[3] + 16777216 * b[4]

\* A number as n little-endian bytes (limbs).
RECURSIVE Limbs(_, _)
Limbs(v, n) == IF n = 0 THEN <<>> ELSE <<v % 256>> \o Limbs(v \div 256, n - 1)

\* A two's complement number of Len(b) bytes widened to n bytes.
SignExtend(b, n) ==
    [i \in 1..n |-> IF i <= Len(b) THEN b[i]
                    ELSE IF b[Len(b)] >= 128 THEN 255 ELSE 0]

ZeroExtend(b, n) == [i \in 1..n |-> IF i <= Len(b) THEN b[i] ELSE 0]

RECURSIVE Dot(_, _, _, _)
Dot(a, b, k, i) ==
    IF i > k THEN 0 ELSE a[i] * b[k + 1 - i] + Dot(a, b, k, i + 1)

RECURSIVE MulFrom(_, _, _, _)
MulFrom(a, b, k, carry) ==
    IF k > Len(a) THEN <<>>
    ELSE Let(carry + Dot(a, b, k, 1), LAMBDA s :
             <<s % 256>> \o MulFrom(a, b, k + 1, s \div 256))

\* The product of two numbers of the same width, modulo that width: what a
\* C multiplication of that width leaves, signed or unsigned.
Mul(a, b) == Let(a, LAMBDA x : Let(b, LAMBDA y : MulFrom(x, y, 1, 0)))

\* A buffer's bytes from (0-based) index `from`, n of them.  What lies past
\* the end of the buffer, and a byte never written, is whatever the memory
\* holds: here every aligned 32-bit word of it has the value `junk`.
Slice(bytes, from, n, junk) ==
    <<>> \o [i \in 1..n |->
        IF from + i >= 1 /\ from + i <= Len(bytes) /\ bytes[from + i] # Uninit
        THEN bytes[from + i]
        ELSE IF (from + i - 1) % 4 = 0 THEN junk ELSE 0]

Padding(size) == (MF_ALIGNMENT - (size % MF_ALIGNMENT)) % MF_ALIGNMENT

----------------------------------------------------------------------------
(* The inflate codec.  zlib is outside the repository; the model keeps its *)
(* streaming interface (consume input, fill the output space offered,      *)
(* report the end of the stream or an error) over a run-length code: a     *)
(* stream is a sequence of byte pairs (n, v), each standing for n copies   *)
(* of v, closed by the pair (0, 0); a pair (0, v) with v # 0 is corrupt.   *)

Z_OK == 0
Z_STREAM_END == 1
Z_DATA_ERROR == -3
Z_BUF_ERROR == -5

Min(a, b) == IF a <= b THEN a ELSE b

Max2(a, b) == IF a >= b THEN a ELSE b

\* The encoder.  A token starts where the byte changes, and every 255 bytes
\* within a run of equal bytes.
Breaks(b) == {i \in 1..Len(b) : i = 1 \/ b[i] # b[i - 1]}

TokenStarts(b) ==
    Let(Breaks(b), LAMBDA breaks :
        {i \in 1..Len(b) :
            \E j \in breaks :
                /\ j <= i
                /\ \A k \in breaks : k <= i => k <= j
                /\ (i - j) % 255 = 0})

Deflated(b) ==
    Let(TokenStarts(b), LAMBDA starts :
    Let([m \in 1..Cardinality(starts) |->
            CHOOSE i \in starts : Cardinality({j \in starts : j <= i}) = m],
        LAMBDA at :
        <<>> \o [q \in 1..(2 * Len(at) + 2) |->
                    LET m == (q + 1) \div 2
                    IN  IF m > Len(at) THEN 0
                        ELSE IF q % 2 = 0 THEN b[at[m]]
                        ELSE IF m = Len(at) THEN Len(b) + 1 - at[m]
                        ELSE at[m + 1] - at[m]]))

\* A stream: the input not yet consumed, the run being written out, and
\* whether the end or an error was met.
ZStream(in) == [in |-> in, n |-> 0, v |-> 0, done |-> FALSE, err |-> FALSE]

\* The first token of an input that is the end marker or corrupt; one past
\* the last token when there is none.
Stop(in) ==
    LET T     == Len(in) \div 2
        stops == {k \in 1..T : in[2 * k - 1] = 0}
    IN  IF stops = {} THEN T + 1
        ELSE CHOOSE k \in stops : \A m \in stops : k <= m

\* The number of bytes the first k tokens of an input stand for.
Total(in, k) ==
    Cardinality(UNION {{<<j, c>> : c \in 1..in[2 * j - 1]} : j \in 1..k})

\* The bytes on offer after each token before the stop S: entry k + 1 is
\* the pending run n plus what the first k tokens stand for.
Totals(in, S, n) == <<>> \o [k \in 1..S |-> n + Total(in, k - 1)]

\* The stream run until the room is used up, the input is, or the end marker
\* or a corrupt token is met.
Inflated(z, room, S, cum) ==
    LET in    == z.in
        T     == Len(in) \div 2
        total == cum[S]
        \* the token the p-th byte on offer comes from, 0 for the pending run
        First(p) == CHOOSE k \in 0..(S - 1) :
                       /\ cum[k + 1] >= p
                       /\ (k = 0 \/ cum[k] < p)
        Byte(k) == IF k = 0 THEN z.v ELSE in[2 * k]
        out   == <<>> \o [p \in 1..Min(room, total) |-> Byte(First(p))]
        L     == First(room + 1)
    IN  IF total > room
        THEN [z |-> [z EXCEPT !.in = SubSeq(in, 2 * L + 1, Len(in)),
                              !.n = cum[L + 1] - room,
                              !.v = Byte(L)],
              out |-> out]
        ELSE IF S <= T
        THEN [z |-> [z EXCEPT !.in = SubSeq(in, 2 * S + 1, Len(in)),
                              !.n = 0,
                              !.done = (in[2 * S] = 0),
                              !.err = (in[2 * S] # 0)],
              out |-> out]
        ELSE [z |-> [z EXCEPT !.in = <<>>, !.n = 0], out |-> out]

Inflating(z, room) ==
    IF z.done \/ z.err THEN [z |-> z, out |-> <<>>]
    ELSE Let(Stop(z.in), LAMBDA S :
         Let(Totals(z.in, S, z.n), LAMBDA cum : Inflated(z, room, S, cum)))

\* inflate(&stream, Z_SYNC_FLUSH) with avail_out bytes of room.
inflate(z, avail_out) ==
    Let(Inflating(z, avail_out), LAMBDA r :
        [z |-> r.z, out |-> r.out,
         code |-> IF r.z.err THEN Z_DATA_ERROR
                  ELSE IF r.z.done THEN Z_STREAM_END
                  ELSE IF Len(r.z.in) = Len(z.in) /\ r.out = <<>>
                       THEN Z_BUF_ERROR
                  ELSE Z_OK])

----------------------------------------------------------------------------
(* Memory as the parser sees it.  A pointer [blk, off] with blk = 0 points *)
(* into the input buffer, otherwise into the heap block blk.  An           *)
(* environment E holds the input bytes (mem), the value `junk` of every    *)
(* byte read outside a buffer or before it was written, and `libc`, which  *)
(* says what realloc(p, 0) does.                                           *)

Bytes(E, h, ptr) == IF ptr.blk = 0 THEN E.mem ELSE h[ptr.blk].val

\* The bytes written at ptr, as far as the block reaches.
Written(h, ptr, bytes) ==
    [h EXCEPT ![ptr.blk].val =
        <<>> \o [i \in 1..Len(@) |->
            IF i > ptr.off /\ i <= ptr.off + Len(bytes)
            THEN bytes[i - ptr.off] ELSE @[i]]]

\* What realloc does in tape_purge under the environment's libc.
PurgeHow(E, h, t) ==
    IF "zero" \in PurgeOutcomes(h, t) /\ E.libc = "glibc" THEN "zero" ELSE "ok"

----------------------------------------------------------------------------
(* matfile.c: decompress_data_element.                                     *)

\* element->large.size | 0x80
BufferSize(size) == IF (size \div 128) % 2 = 0 THEN size + 128 ELSE size

\* A size_t stored into the 32-bit avail_out: a wrapped (huge) value is
\* more room than the stream z can fill, a token standing for 255 bytes at
\* most.
AvailOut(size, z) == IF size < 0 THEN z.n + 255 * Len(z.in) ELSE size

\* The result of decompress_data_element: status "ok" (returns 0), "fail"
\* (returns 1) or "crash" (a copy of a wrapped, huge length); the heap; the
\* element as rewritten; the input index up to which the stream was read;
\* whether inflate wrote past the end of the scratch buffer; and the two
\* sizes computed for the second pass.
Decompressed(status, h, el, hi, hwrite, avail_size, rest_size) ==
    [status |-> status, heap |-> h, el |-> el, hi |-> hi, hwrite |-> hwrite,
     avail_size |-> avail_size, rest_size |-> rest_size]

\* From the check of the first inflate on: h1 is the heap after the first
\* pass r1, tp the scratch tape, base and data its two reservations, and
\* subtype, subsize the tag found at base.
decompress_rest(E, h1, el, tp, base, data, r1, subtype, subsize) ==
    LET tag_size    == SizeofTag
        buffer_size == BufferSize(el.size)
        hi1  == el.data.off + (el.size - Len(r1.z.in))
        el1  == [el EXCEPT !.type = subtype, !.size = subsize]
        avail_out1 == buffer_size - Len(r1.out)
        avail_size == buffer_size - tag_size - avail_out1
        rest_size  == subsize - avail_size
    IN  IF r1.code < Z_OK
        THEN Decompressed("fail", tape_destroy(h1, tp), el, hi1, FALSE, 0, 0)
        ELSE IF ~(subtype >= MFDT_INT8 /\ subtype < MFDT_COUNT)
        THEN Decompressed("fail", tape_destroy(h1, tp), el, hi1, FALSE, 0, 0)
        ELSE IF avail_size < 0
        THEN Decompressed("crash", h1, el1, hi1, TRUE, avail_size, rest_size)
        ELSE
        \* memmove(base, data, avail_size)
        Let(Written(h1, base, SubSeq(h1[base.blk].val, data.off + 1,
                                     data.off + avail_size)), LAMBDA h2 :
        \* second pass: the rest of the payload
        Let(tape_pop(h2, tp, buffer_size), LAMBDA h3 :
        Let(tape_push(h3, tp, avail_size, TRUE), LAMBDA p3 :
        Let(tape_push(p3.heap, tp, rest_size, TRUE), LAMBDA p4 :
        Let(inflate(r1.z, AvailOut(rest_size, r1.z)), LAMBDA r2 :
        Let(Written(p4.heap, p4.ret, r2.out), LAMBDA h4 :
            LET hi2  == el.data.off + (el.size - Len(r2.z.in))
                over == p4.ret.off + Len(r2.out) > Len(p4.heap[p4.ret.blk].val)
            IN  IF r2.code < Z_OK
                THEN Decompressed("fail", tape_destroy(h4, tp), el1, hi2, over,
                                  avail_size, rest_size)
                ELSE IF Len(r2.z.in) # 0
                THEN Decompressed("fail", tape_destroy(h4, tp), el1, hi2, over,
                                  avail_size, rest_size)
                ELSE Let(tape_purge(h4, tp, PurgeHow(E, h4, tp)), LAMBDA pg :
                         Decompressed("ok", pg.heap, [el1 EXCEPT !.data = pg.ret],
                                      hi2, over, avail_size, rest_size))))))))

decompress_data_element(E, h, el) ==
    LET tag_size    == SizeofTag
        buffer_size == BufferSize(el.size)
    IN  Let(tape_create(h, buffer_size, 1), LAMBDA t0 :
        Let(tape_push(t0.heap, t0.tape, tag_size, TRUE), LAMBDA p1 :
        Let(tape_push(p1.heap, t0.tape, buffer_size - tag_size, TRUE), LAMBDA p2 :
        \* first pass: the beginning of the data, which holds the tag
        Let(inflate(ZStream(Slice(E.mem, el.data.off, el.size, E.junk)),
                    buffer_size), LAMBDA r1 :
        Let(Written(p2.heap, p1.ret, r1.out), LAMBDA h1 :
        Let(Slice(h1[p1.ret.blk].val, 0, 8, E.junk), LAMBDA sub :
            decompress_rest(E, h1, el, t0.tape, p1.ret, p2.ret, r1,
                            U32(SubSeq(sub, 1, 4)), U32(SubSeq(sub, 5, 8)))))))))

----------------------------------------------------------------------------
(* matfile.c: parse_array and the numerical parts.  The source is read     *)
(* through a pointer ptr; offsets are relative to it, and `hi` is the      *)
(* offset up to which the source has been read.                            *)

Word(E, h, ptr, at) == U32(Slice(Bytes(E, h, ptr), ptr.off + at, 4, E.junk))

\* The dimensions as the 4-byte values stored in the dims block.
DimAt(h, dims, i) == SubSeq(h[dims].val, 4 * i - 3, 4 * i)

\* int noelems = 1; noelems *= dims[i]: 32-bit products.
RECURSIVE noelems(_, _, _)
noelems(h, dims, n) ==
    IF n = 0 THEN Limbs(1, 4)
    ELSE Mul(noelems(h, dims, n - 1), DimAt(h, dims, n))

Part(ok, h, next, data, hi) ==
    [ok |-> ok, heap |-> h, next |-> next, data |-> data, hi |-> hi]

parse_numerical_part(E, h, ptr, array, data, len, hi) ==
    LET tag_size  == SizeofTag
        type      == Word(E, h, ptr, data)
        elsize    == Word(E, h, ptr, data + 4)
        hi1       == Max2(hi, data + tag_size)
        type_size == data_type_size(type)
        size      == Mul(Limbs(type_size, 8),
                         SignExtend(noelems(h, array.dims, array.nodims), 8))
    IN  IF ULT(len, tag_size) THEN Part(FALSE, h, 0, NULL, hi)
        ELSE IF ULT(len, tag_size + elsize) THEN Part(FALSE, h, 0, NULL, hi1)
        ELSE IF ~matfile_is_numerical(type) THEN Part(FALSE, h, 0, NULL, hi1)
        ELSE IF Limbs(elsize, 8) # size THEN Part(FALSE, h, 0, NULL, hi1)
        ELSE Let(malloc(h, elsize, 1,
                        Slice(Bytes(E, h, ptr), ptr.off + data + tag_size,
                              elsize, E.junk)), LAMBDA h1 :
                 Part(TRUE, h1, data + tag_size + elsize, Len(h1),
                      Max2(hi1, data + tag_size + elsize)))

\* Returns the array with pr and pi set, and whether it succeeded.
parse_numerical_array(E, h, ptr, array, data, len, hi) ==
    LET end == data + len
        a0  == [array EXCEPT !.pr = NULL, !.pi = NULL]
    IN  Let(parse_numerical_part(E, h, ptr, a0, data, len, hi), LAMBDA r1 :
        LET a1 == [a0 EXCEPT !.pr = r1.data]
        IN  IF ~r1.ok
            THEN [ok |-> FALSE, heap |-> r1.heap, array |-> a0, hi |-> r1.hi]
            ELSE IF r1.next = end
            THEN [ok |-> TRUE, heap |-> r1.heap, array |-> a1, hi |-> r1.hi]
            ELSE Let(parse_numerical_part(E, r1.heap, ptr, a1, r1.next, len,
                                          r1.hi), LAMBDA r2 :
                 IF ~r2.ok
                 THEN [ok |-> FALSE, heap |-> r2.heap, array |-> a1,
                       hi |-> r2.hi]
                 ELSE [ok |-> TRUE, heap |-> r2.heap,
                       array |-> [a1 EXCEPT !.pi = r2.data], hi |-> r2.hi]))

Parsed(h, array, hi) == [heap |-> h, array |-> array, hi |-> hi]

\* The array header as read from the source: tags, flags and offsets.
array_header(E, h, ptr) ==
    LET tag    == SizeofTag
        off1   == tag + 8
        dsize  == Word(E, h, ptr, off1 + 4)
        off2   == off1 + tag
        off3   == off2 + dsize + Padding(dsize)
        nsize  == Word(E, h, ptr, off3 + 4)
        off4   == off3 + tag
    IN  [ftype |-> Word(E, h, ptr, 0), fsize |-> Word(E, h, ptr, 4),
         flags |-> Slice(Bytes(E, h, ptr), ptr.off + tag, 8, E.junk),
         off1 |-> off1, dtype |-> Word(E, h, ptr, off1), dsize |-> dsize,
         off2 |-> off2, off3 |-> off3, ntype |-> Word(E, h, ptr, off3),
         nsize |-> nsize, off4 |-> off4,
         off5 |-> off4 + nsize + Padding(nsize)]

parse_array(E, h, ptr, length) ==
    Let(array_header(E, h, ptr), LAMBDA H :
    LET B   == Bytes(E, h, ptr)
        tag == SizeofTag
        made(hh, a) == malloc(hh, SizeofArray, SizeofArray, a)
    IN  IF ULT(length, tag + 8) THEN Parsed(h, NULL, 0)
        ELSE IF H.ftype # MFDT_UINT32 THEN Parsed(h, NULL, tag)
        ELSE IF H.fsize # 8 THEN Parsed(h, NULL, tag)
        ELSE IF ULT(length, H.off1 + tag + 2 * 4) THEN Parsed(h, NULL, H.off1)
        ELSE IF H.dtype # MFDT_INT32 THEN Parsed(h, NULL, H.off2)
        ELSE IF H.dsize % 4 # 0 THEN Parsed(h, NULL, H.off2)
        ELSE IF ULT(length, H.off2 + H.dsize) THEN Parsed(h, NULL, H.off2)
        ELSE
        \* dimensions
        Let(malloc(h, H.dsize, 1,
                   Slice(B, ptr.off + H.off2, H.dsize, E.junk)), LAMBDA h1 :
        IF ULT(length, H.off3 + tag) THEN Parsed(h1, NULL, H.off2 + H.dsize)
        ELSE IF H.ntype # MFDT_INT8 THEN Parsed(h1, NULL, H.off4)
        ELSE IF ULT(length, H.off4 + H.nsize) THEN Parsed(h1, NULL, H.off4)
        ELSE
        \* name
        Let(malloc(h1, H.nsize + 1, 1,
                   Slice(B, ptr.off + H.off4, H.nsize, E.junk) \o <<0>>),
            LAMBDA h2 :
        \* the rest depends on the class
        LET rest_size  == length - H.off5
            array_type == H.flags[1]
            array  == [flags |-> H.flags, dims |-> Len(h1), name |-> Len(h2),
                       nodims |-> H.dsize \div 4, length |-> H.nsize,
                       pr |-> Uninit, pi |-> Uninit]
        IN  IF array_type >= MFMX_CELL_CLASS /\ array_type <= MFMX_SPARSE_CLASS
            THEN Parsed(made(h2, array), Len(h2) + 1, H.off4 + H.nsize)
            ELSE IF array_type >= MFMX_DOUBLE_CLASS
                    /\ array_type <= MFMX_UINT64_CLASS
            THEN Let(parse_numerical_array(E, h2, ptr, array, H.off5,
                                           rest_size, H.off4 + H.nsize),
                     LAMBDA num :
                     IF ~num.ok THEN Parsed(num.heap, NULL, num.hi)
                     ELSE Parsed(made(num.heap, num.array),
                                 Len(num.heap) + 1, num.hi))
            ELSE Parsed(h2, NULL, H.off4 + H.nsize))))

----------------------------------------------------------------------------
(* matfile.c: parse_data_elements.  A parse state P holds the heap, the    *)
(* element tape, the cursor, the element count and the status: "loop"      *)
(* while the for loop runs, "failed" once NULL was returned from inside    *)
(* it, "crash" after a copy from a null or wrapped source, "done" after    *)
(* the final tape_purge, whose value is `result`.  It also records what    *)
(* the run did to memory: hiread, the input index up to which bytes were   *)
(* read; hover, whether a heap block was read past its end; hwrite,        *)
(* whether one was written past its end; and, per iteration, the cursor    *)
(* it started at and whether it took the decompression branch.             *)

InputPtr(off) == [blk |-> 0, off |-> off]

\* The state at the first evaluation of the loop condition.
parse_begin(E) ==
    Let(tape_create(<<>>, 16 * SizeofElement, SizeofElement), LAMBDA t :
        [heap |-> t.heap, tape |-> t.tape, offset |-> 0, noelements |-> 0,
         status |-> "loop", result |-> NULL,
         hiread |-> 0, hover |-> FALSE, hwrite |-> FALSE, iters |-> <<>>])

\* The element stored in the slot reserved by tape_push.
Stored(h, slot, el) ==
    [h EXCEPT ![slot.blk].val =
        <<>> \o [i \in 1..Len(@) |->
                    IF i = slot.off \div SizeofElement + 1 THEN el ELSE @[i]]]

\* The content of a large element: a matrix goes to parse_array, anything
\* else is copied, data_size bytes of it.  Returns the heap, the pointer
\* kept in the element and the number of source bytes read.
element_content(E, h, el, buffer, data_size) ==
    IF el.type = MFDT_MATRIX
    THEN Let(parse_array(E, h, buffer, el.size), LAMBDA arr :
             [heap |-> arr.heap, data |-> arr.array, used |-> arr.hi])
    ELSE Let(malloc(h, data_size, 1,
                    Slice(Bytes(E, h, buffer), buffer.off, data_size, E.junk)),
             LAMBDA copy :
             [heap |-> copy, data |-> Len(copy), used |-> data_size])

\* The size of an uncompressed element with the padding left out.
aligned_unpadded(data_size) == data_size

\* data_size += residue ? MATFILE_ALIGNMENT - residue : 0
aligned(data_size) ==
    LET residue == data_size % MATFILE_ALIGNMENT
    IN  data_size + (IF residue # 0 THEN MATFILE_ALIGNMENT - residue ELSE 0)

\* The size of a compressed element rounded up like an uncompressed one.
unaligned_padded(data_size) == aligned(data_size)

\* data_size of a compressed element: the declared byte count as it is,
\* the rounding being in the else branch.
unaligned(data_size) == data_size

\* One iteration of the for loop (offset < length).
parse_element(E, P) ==
    LET small_size == SizeofTag
        offset == P.offset + small_size
        hi0    == Max2(P.hiread, offset)
        iter(how) == Append(P.iters, [at |-> P.offset, kind |-> how])
    IN
    Let(tape_push(P.heap, P.tape, SizeofElement, TRUE), LAMBDA push :
    Let(Slice(E.mem, P.offset, small_size, E.junk), LAMBDA tag :
    Let([type |-> U32(SubSeq(tag, 1, 4)), size |-> U32(SubSeq(tag, 5, 8)),
         data |-> NullPtr, noelements |-> 0], LAMBDA elem :
    LET data_size == elem.size
        data_type == elem.type
        padded    == aligned(data_size)
    IN  IF matfile_is_small(elem)
        THEN [P EXCEPT !.heap = Stored(push.heap, push.ret, elem),
                       !.offset = offset,
                       !.noelements = @ + 1,
                       !.hiread = hi0,
                       !.iters = iter("small")]
        ELSE IF ~(data_type >= MFDT_INT8 /\ data_type < MFDT_COUNT)
        THEN [P EXCEPT !.heap = tape_destroy(push.heap, P.tape),
                       !.offset = offset,
                       !.status = "failed",
                       !.hiread = hi0,
                       !.iters = iter("badtype")]
        ELSE IF elem.type = MFDT_COMPRESSED
        THEN
        Let(decompress_data_element(
                E, push.heap, [elem EXCEPT !.data = InputPtr(offset)]),
            LAMBDA dec :
        IF dec.status = "fail"
        THEN [P EXCEPT !.heap = tape_destroy(dec.heap, P.tape),
                       !.offset = offset,
                       !.status = "failed",
                       !.hiread = Max2(hi0, dec.hi),
                       !.hwrite = @ \/ dec.hwrite,
                       !.iters = iter("compressed")]
        ELSE IF dec.status = "crash"
                \/ (dec.el.type # MFDT_MATRIX /\ dec.el.data.blk = NULL)
        THEN [P EXCEPT !.heap = dec.heap,
                       !.offset = offset,
                       !.status = "crash",
                       !.hiread = Max2(hi0, dec.hi),
                       !.hwrite = @ \/ dec.hwrite,
                       !.iters = iter("compressed")]
        ELSE
        Let(element_content(E, dec.heap, dec.el, dec.el.data, data_size),
            LAMBDA c :
        [P EXCEPT !.heap = Stored(IF dec.el.type # data_type
                                  THEN free(c.heap, dec.el.data.blk)
                                  ELSE c.heap,
                                  push.ret,
                                  [dec.el EXCEPT !.data =
                                      [blk |-> c.data, off |-> 0]]),
                  !.offset = offset + unaligned(data_size),
                  !.noelements = @ + 1,
                  !.hiread = Max2(hi0, dec.hi),
                  !.hover = @ \/ c.used > Len(Bytes(E, dec.heap, dec.el.data)),
                  !.hwrite = @ \/ dec.hwrite,
                  !.iters = iter("compressed")]))
        ELSE
        Let(element_content(E, push.heap, elem, InputPtr(offset), padded),
            LAMBDA c :
        [P EXCEPT !.heap = Stored(c.heap, push.ret,
                                  [elem EXCEPT !.data =
                                      [blk |-> c.data, off |-> 0]]),
                  !.offset = offset + padded,
                  !.noelements = @ + 1,
                  !.hiread = Max2(hi0, offset + c.used),
                  !.iters = iter("large")]))))

\* The return after the loop: the element list is the purged tape.
parse_end(E, P) ==
    Let(tape_purge(P.heap, P.tape, PurgeHow(E, P.heap, P.tape)), LAMBDA pg :
        [P EXCEPT !.heap = pg.heap, !.status = "done", !.result = pg.ret.blk])

\* parse_data_elements run to its return.
RECURSIVE parse_loop(_, _)
parse_loop(E, P) ==
    IF P.status # "loop" THEN P
    ELSE IF P.offset < Len(E.mem)
    THEN Let(parse_element(E, P), LAMBDA Q : parse_loop(E, Q))
    ELSE parse_end(E, P)

parse_data_elements(E) == Let(parse_begin(E), LAMBDA P : parse_loop(E, P))

----------------------------------------------------------------------------
(* matfile.c: the file object, matfile_who and matfile_destroy.  The file  *)
(* object is a block whose value holds the element list and the element    *)
(* count; realloc is taken to succeed, as in the parser.                   *)

SizeofMatfile == 144        \* sizeof(matfile_t): header, pointer and size_t

\* *varname = v, in the slot reserved by tape_push.
Pointed(h, slot, v) ==
    [h EXCEPT ![slot.blk].val =
        <<>> \o [i \in 1..Len(@) |->
                    IF i = slot.off \div SizeofPointer + 1 THEN v ELSE @[i]]]

\* The loop of matfile_who from element i on.  W holds the heap and the
\* status, "crash" once the name was read through a null array pointer.
RECURSIVE who_loop(_, _, _, _, _)
who_loop(W, t, els, i, n) ==
    IF W.status # "ok" \/ i > n THEN W
    ELSE IF els[i].type # MFDT_MATRIX THEN who_loop(W, t, els, i + 1, n)
    ELSE Let(tape_push(W.heap, t, SizeofPointer, TRUE), LAMBDA push :
         IF els[i].data.blk = NULL
         THEN [W EXCEPT !.heap = push.heap, !.status = "crash"]
         ELSE Let([W EXCEPT !.heap =
                      Pointed(push.heap, push.ret,
                              push.heap[els[i].data.blk].val.name)],
                  LAMBDA W1 : who_loop(W1, t, els, i + 1, n)))

\* Returns the heap, the status and the list (a block of pointers).
matfile_who(E, h, m) ==
    Let(tape_create(h, 4 * SizeofPointer, SizeofPointer), LAMBDA t0 :
    Let(who_loop([heap |-> t0.heap, status |-> "ok"], t0.tape,
                 h[h[m].val.elements].val, 1, h[m].val.noelements),
        LAMBDA W :
        IF W.status = "crash"
        THEN [heap |-> W.heap, status |-> "crash", ret |-> NULL]
        ELSE Let(tape_push(W.heap, t0.tape, SizeofPointer, TRUE), LAMBDA push :
             Let(Pointed(push.heap, push.ret, NULL), LAMBDA h1 :
             Let(tape_purge(h1, t0.tape, PurgeHow(E, h1, t0.tape)), LAMBDA pg :
                 [heap |-> pg.heap, status |-> "ok", ret |-> pg.ret.blk])))))

\* SAFE_RELEASE(p) on D = [heap, wild].  A pointer never assigned holds
\* what the memory held: null when the junk is 0, otherwise an address that
\* no allocation returned, and `wild` counts the calls of free on such.
SAFE_RELEASE(E, D, p) ==
    IF p = Uninit
    THEN IF E.junk = 0 THEN D ELSE [D EXCEPT !.wild = @ + 1]
    ELSE IF p = NULL THEN D
    ELSE [D EXCEPT !.heap = free(@, p)]

matfile_array_destroy(E, D, array) ==
    IF array = NULL THEN D
    ELSE Let(D.heap[array].val, LAMBDA a :
         Let(SAFE_RELEASE(E, D, a.dims), LAMBDA D1 :
         Let(SAFE_RELEASE(E, D1, a.name), LAMBDA D2 :
         Let(SAFE_RELEASE(E, D2, a.pr), LAMBDA D3 :
         Let(SAFE_RELEASE(E, D3, a.pi), LAMBDA D4 :
             SAFE_RELEASE(E, D4, array))))))

\* The loop of matfile_destroy from element i on.
RECURSIVE destroy_loop(_, _, _, _, _)
destroy_loop(E, D, els, i, n) ==
    IF i > n THEN D
    ELSE IF matfile_is_small(els[i]) /\ els[i].data.blk = NULL
    THEN destroy_loop(E, D, els, i + 1, n)
    ELSE IF els[i].type = MFDT_MATRIX
    THEN Let(matfile_array_destroy(E, D, els[i].data.blk), LAMBDA D1 :
             destroy_loop(E, D1, els, i + 1, n))
    ELSE Let([D EXCEPT !.heap = free(@, els[i].data.blk)], LAMBDA D1 :
             destroy_loop(E, D1, els, i + 1, n))

matfile_destroy(E, h, m) ==
    IF m = NULL THEN [heap |-> h, wild |-> 0]
    ELSE IF h[m].val.elements = NULL
    THEN [heap |-> free(h, m), wild |-> 0]
    ELSE Let(destroy_loop(E, [heap |-> h, wild |-> 0],
                          h[h[m].val.elements].val, 1, h[m].val.noelements),
             LAMBDA D :
             [D EXCEPT !.heap = free(free(@, h[m].val.elements), m)])

\* The end of matfile_read: the file object made of what the parser
\* returned, destroyed when that is null.  The object is allocated before
\* the parse; the model puts it in the heap when the parse returns, so
\* that the blocks of the parse keep their places.
matfile_read(E, h, elements, noelements) ==
    Let(malloc(h, SizeofMatfile, SizeofMatfile,
               [elements |-> elements, noelements |-> noelements]),
        LAMBDA h1 :
        IF elements = NULL
        THEN [heap |-> matfile_destroy(E, h1, Len(h1)).heap, mat |-> NULL]
        ELSE [heap |-> h1, mat |-> Len(h1)])

\* matfile.h, matfile_endianness_t.
MFEND_SAME == 0
MFEND_SWITCH == 1

\* The reversed byte-order marker: "IM" read as a 16-bit number.
MarkerSwitched == 18765     \* 0x494d

\* A 16-bit field of the packed header as the host, little-endian, loads it.
U16(b) == b[1] + 256 * b[2]

\* swap_bytes = mat->header.endianness == 0x494d, the only assignment to
\* the static flag.
swap_bytes_sticky(swap_bytes, endianness) ==
    swap_bytes \/ endianness = MarkerSwitched

swap_bytes_after(swap_bytes, endianness) == endianness = MarkerSwitched

swap2(swap_bytes, word) ==
    IF swap_bytes
    THEN LET byte1 == word % 256
             byte2 == (word \div 256) % 256
         IN  (byte1 * 256 + byte2) % 65536
    ELSE word

\* The start of matfile_read once fread has filled the header: hdr holds
\* the last four bytes of the 128, the version and the endianness marker.
\* F is the reader's record; the result has the flag, the endianness handed
\* to the parser and the version as stored back in the header.
read_header(F, hdr) ==
    LET endianness == U16(SubSeq(hdr, 3, 4))
        version    == U16(SubSeq(hdr, 1, 2))
    IN  Let(swap_bytes_after(F.swap_bytes, endianness), LAMBDA flag :
            [F EXCEPT !.swap_bytes = flag,
                      !.header = hdr,
                      !.endianness = IF endianness = MarkerSwitched
                                     THEN MFEND_SWITCH ELSE MFEND_SAME,
                      !.version = swap2(flag, version),
                      !.seen = Append(@, SubSeq(hdr, 3, 4))])

\* matfile_read on a file shorter than its header: fread fails and
\* matfile_destroy is given the object as malloc left it.  Its elements
\* field holds what the memory held: null when the junk is 0, otherwise an
\* address that no allocation returned, which the loop then reads through.
read_short(E) ==
    Let(malloc(<<>>, SizeofMatfile, SizeofMatfile,
               [elements |-> NULL, noelements |-> 0]), LAMBDA h1 :
        IF E.junk = 0
        THEN [heap |-> matfile_destroy(E, h1, Len(h1)).heap, status |-> "null"]
        ELSE [heap |-> h1, status |-> "crash"])

----------------------------------------------------------------------------
(* The inputs: MAT-file data elements as bytes, laid out as matfile.h      *)
(* describes them, and the files built from them.                          *)

Zeros(n) == [i \in 1..n |-> 0]
Count(n) == [i \in 1..n |-> i]
Padded(b) == b \o Zeros(Padding(Len(b)))
Tag(type, size) == Limbs(type, 4) \o Limbs(size, 4)

\* [size:u16][type:u16][payload: 4 bytes inline]
SmallEl(type, payload) == <<Len(payload), 0, type, 0>> \o ZeroExtend(payload, 4)
\* [type:u32][size:u32][payload, padded to 8]; the size written may be wrong
SubEl(type, size, payload) == Tag(type, size) \o Padded(payload)
Flat(type, payload) == SubEl(type, Len(payload), payload)
Dims(a, b) == a \o b
Matrix(class, dims, name, parts) ==
    LET body == SubEl(MFDT_UINT32, 8, <<class, 0, 0, 0, 0, 0, 0, 0>>)
                \o SubEl(MFDT_INT32, Len(dims), dims)
                \o SubEl(MFDT_INT8, Len(name), name)
                \o parts
    IN  Tag(MFDT_MATRIX, Len(body)) \o body
Compressed(z) == Tag(MFDT_COMPRESSED, Len(z)) \o z

Dim(n) == Limbs(n, 4)                 \* a dimension n >= 0
DMinus(n) == <<256 - n, 255, 255, 255>>     \* a dimension -n, 0 < n < 256

ElSmall   == SmallEl(MFDT_UINT32, <<1, 2, 3, 4>>)
ElInt8x5  == Flat(MFDT_INT8, Count(5))
ElDouble  == Flat(MFDT_DOUBLE, Count(8))
ElZeros32 == Flat(MFDT_DOUBLE, Zeros(32))
ElZeros300 == Flat(MFDT_INT8, Zeros(300))
ElEmpty   == Flat(16, <<>>)
ElType0   == Tag(0, 0)
ElType19  == SubEl(MFDT_UTF32 + 1, 8, Count(8))
MxDouble  == Matrix(6, Dims(Dim(1), Dim(1)), <<97>>, SubEl(MFDT_DOUBLE, 8, Count(8)))
MxInt8x5  == Matrix(8, Dims(Dim(5), Dim(1)), <<98>>, SubEl(MFDT_INT8, 5, Count(5)))
MxInt8x8  == Matrix(8, Dims(Dim(2), Dim(4)), <<98>>, SubEl(MFDT_INT8, 8, Count(8)))
MxComplex == Matrix(12, Dims(Dim(2), Dim(1)), <<99>>,
                    SubEl(MFDT_INT32, 8, Count(8))
                    \o SubEl(MFDT_INT32, 8, Count(8)))
MxBadImag == Matrix(12, Dims(Dim(2), Dim(1)), <<99>>,
                    SubEl(MFDT_INT32, 8, Count(8))
                    \o SubEl(MFDT_INT32, 4, Count(4)))
MxCell    == Matrix(1, Dims(Dim(1), Dim(1)), <<100>>, <<>>)
MxStruct  == Matrix(2, Dims(Dim(1), Dim(1)), <<101>>, SubEl(MFDT_DOUBLE, 8, Count(8)))
MxSparse  == Matrix(5, Dims(Dim(1), Dim(1)), <<102>>, SubEl(MFDT_DOUBLE, 8, Count(8)))
MxClass0  == Matrix(0, Dims(Dim(1), Dim(1)), <<103>>, SubEl(MFDT_DOUBLE, 8, Count(8)))
MxMismatch == Matrix(6, Dims(Dim(2), Dim(3)), <<104>>, SubEl(MFDT_DOUBLE, 40, Count(40)))
MxShort   == Matrix(8, Dims(Dim(2), Dim(3)), <<104>>, SubEl(MFDT_INT8, 5, Count(5)))
MxUtf8    == Matrix(6, Dims(Dim(1), Dim(1)), <<105>>, SubEl(16, 8, Count(8)))
MxOverflow == Matrix(8, Dims(Dim(65536), Dim(65536)), <<106>>, SubEl(MFDT_INT8, 0, <<>>))
MxNegative == Matrix(8, Dims(DMinus(2), DMinus(4)), <<107>>, SubEl(MFDT_INT8, 8, Count(8)))
MxNegOne  == Matrix(8, Dims(DMinus(8), Dim(1)), <<108>>, SubEl(MFDT_INT8, 8, Count(8)))
MxZeroDim == Matrix(8, Dims(Dim(0), Dim(3)), <<109>>, SubEl(MFDT_INT8, 0, <<>>))
MxNoDims  == Matrix(8, <<>>, <<110, 110, 110, 110, 110, 110, 110, 110>>,
                    SubEl(MFDT_INT8, 1, <<1>>))
MxNoDims8 == Matrix(6, <<>>, <<112>>, SubEl(MFDT_DOUBLE, 8, Count(8)))
MxDims6   == Matrix(8, <<1, 0, 0, 0, 1, 0>>, <<111>>, SubEl(MFDT_INT8, 1, <<1>>))
MxBadFlags == Tag(MFDT_MATRIX, 16) \o SubEl(MFDT_INT32, 8, Zeros(8))

ZInt8x5   == Compressed(Deflated(ElInt8x5))
ZDouble   == Compressed(Deflated(ElDouble))
ZZeros32  == Compressed(Deflated(ElZeros32))
ZZeros300 == Compressed(Deflated(ElZeros300))
ZMxDouble == Compressed(Deflated(MxDouble))
ZMxCell   == Compressed(Deflated(MxCell))
ZTrailing == Compressed(Deflated(ElDouble) \o <<7, 7>>)
ZCorrupt  == Compressed(<<1, 9, 0, 5>>)
ZType0    == Compressed(Deflated(ElType0))
ZSmall    == Compressed(Deflated(ElSmall))
ZEmpty    == Compressed(Deflated(ElEmpty))
ZShort    == Compressed(Deflated(<<1, 0, 0, 0>>))
ZNested   == Compressed(Deflated(ZInt8x5))

\* The elements studied, and those put around them.
Studied ==
    { ElSmall, ElInt8x5, ElDouble, ElZeros32, ElEmpty, ElType0, ElType19,
      MxDouble, MxInt8x5, MxInt8x8, MxComplex, MxBadImag, MxCell, MxStruct, MxSparse,
      MxClass0, MxMismatch, MxShort, MxUtf8, MxOverflow, MxNegative,
      MxNegOne, MxZeroDim, MxNoDims, MxNoDims8, MxDims6, MxBadFlags,
      ZInt8x5, ZDouble, ZZeros32, ZZeros300, ZMxDouble, ZMxCell, ZTrailing,
      ZCorrupt, ZType0, ZSmall, ZEmpty, ZShort, ZNested }

Fillers == { ElSmall, ElInt8x5, MxDouble }

RECURSIVE Joined(_)
Joined(ss) == IF ss = <<>> THEN <<>> ELSE ss[1] \o Joined(Tail(ss))

Prefixes ==
    { Joined(f) : f \in UNION { [1..n -> Fillers] : n \in 0..MaxPre } }

\* Bytes cut off the end of a file.
Cuts == {0, 4, 11}

Files ==
    { SubSeq(f, 1, Len(f) - c) :
        f \in { pre \o e \o post : pre \in Prefixes, e \in Studied \cup {<<>>},
                                    post \in {<<>>, ElSmall} },
        c \in Cuts }

\* A double matrix named by one letter; files of matrices only, and the
\* matrices "a", "b", "c" among elements that are no matrices.
Named(c) == Matrix(6, Dims(Dim(1), Dim(1)), <<c>>, SubEl(MFDT_DOUBLE, 8, Count(8)))

Lists ==
    { Joined([i \in 1..n |-> Named(96 + i)]) : n \in 0..MaxList }
    \cup { Named(97) \o ElSmall \o Named(98) \o ElInt8x5 \o Named(99) }

Environments ==
    [mem : Files \cup Lists, junk : {0, 1}, libc : {"glibc", "other"}]

\* The last four bytes of a header: a version, in either byte order, and
\* the marker "MI" as the writer's byte order left it, or no marker.
Versions == { <<0, 1>>, <<1, 0>> }
Markers == { <<73, 77>>, <<77, 73>>, <<0, 0>> }
Headers == { v \o m : v \in Versions, m \in Markers }

\* The data parts of the files given to matfile_read.
ReadFiles == { <<>>, MxDouble, ElType19, ZEmpty }
ReadEnvironments == [mem : ReadFiles, junk : {0}, libc : {"glibc", "other"}]

----------------------------------------------------------------------------
(* The tape machine: a caller that creates one tape and then pushes, pops, *)
(* fills what it reserved, and finally purges.                             *)

TapeOf(h, t) == h[t].val

\* The parser before parse_data_elements is entered.
Idle ==
    [tape |-> NULL, offset |-> 0, noelements |-> 0, status |-> "start",
     result |-> NULL, hiread |-> 0, hover |-> FALSE, hwrite |-> FALSE,
     iters |-> <<>>]

\* The file object before matfile_read returns: `obj` is the matfile_t,
\* `names` what matfile_who returned, `asked` whether it was called, and
\* `wild` the number of calls of free on addresses never allocated.
NoMat ==
    [status |-> "none", obj |-> NULL, names |-> NULL, asked |-> FALSE,
     wild |-> 0]

\* The reader before any call of matfile_read: the static flag is 0.
\* `header` holds the version and marker bytes last read, `version` and
\* `endianness` what was made of them, `seen` the markers of all headers
\* read so far and `reads` the number of calls.
NoFile ==
    [swap_bytes |-> FALSE, header |-> <<>>, version |-> 0,
     endianness |-> MFEND_SAME, seen |-> <<>>, reads |-> 0,
     status |-> "none"]

\* What the caller remembers of its last call: its name and argument, how
\* many calls were made, whether only successful pushes were made so far,
\* the used length before the call and, for a purge, the handle and the
\* buffer contents it was applied to.
Call(name, n, count, clean, before, how, was, content) ==
    [name |-> name, n |-> n, count |-> count, clean |-> clean,
     before |-> before, how |-> how, was |-> was, content |-> content]

InitTape ==
    \E c \in 0..MaxCap :
        LET r == tape_create(<<>>, c, 1)
        IN  /\ heap = r.heap
            /\ tape = r.tape
            /\ ret = NullPtr
            /\ op = Call("create", c, 0, TRUE, 0, "", NULL, <<>>)
            /\ pushes = <<>>
            /\ input = [mem |-> <<>>, junk |-> 0, libc |-> "glibc"]
            /\ parse = Idle
            /\ mat = NoMat
            /\ file = NoFile

CanCall == tape # NULL /\ op.count < MaxOps /\ TapeOf(heap, tape).elems # NULL

TapePush(n, ok) ==
    /\ CanCall
    /\ LET r == tape_push(heap, tape, n, ok)
           done == r.ret # NullPtr
       IN  /\ heap' = r.heap
           /\ ret' = r.ret
           /\ op' = Call(IF done THEN "push" ELSE "pushfail", n, op.count + 1,
                         op.clean /\ done, TapeOf(heap, tape).cur_length,
                         "", NULL, <<>>)
           /\ pushes' = IF done THEN Append(pushes, n) ELSE pushes
    /\ UNCHANGED <<tape, pvars>>

TapePop(n) ==
    /\ CanCall
    /\ heap' = tape_pop(heap, tape, n)
    /\ ret' = NullPtr
    /\ op' = Call("pop", n, op.count + 1, FALSE,
                  TapeOf(heap, tape).cur_length, "", NULL, <<>>)
    /\ UNCHANGED <<tape, pushes, pvars>>

\* The caller writes into the block it has just reserved, as far as the
\* block reaches; the value written tells the reservations apart.
TapeFill ==
    /\ tape # NULL
    /\ op.name = "push"
    /\ LET b == ret.blk
       IN  heap' = [heap EXCEPT ![b].val =
                [i \in 1..Len(@) |->
                    IF i > ret.off /\ i <= ret.off + op.n
                    THEN op.count ELSE @[i]]]
    /\ op' = [op EXCEPT !.name = "fill"]
    /\ UNCHANGED <<tape, ret, pushes, pvars>>

TapePurge(how) ==
    /\ tape # NULL
    /\ TapeOf(heap, tape).elems # NULL
    /\ how \in PurgeOutcomes(heap, tape)
    /\ LET T == TapeOf(heap, tape)
           r == tape_purge(heap, tape, how)
       IN  /\ heap' = r.heap
           /\ ret' = r.ret
           /\ op' = Call("purge", 0, op.count, op.clean, T.cur_length,
                         how, tape, heap[T.elems].val)
    /\ tape' = NULL
    /\ UNCHANGED <<pushes, pvars>>

NextTape ==
    \/ \E n \in 0..MaxPush, ok \in BOOLEAN : TapePush(n, ok)
    \/ \E n \in 0..MaxPush : TapePop(n)
    \/ TapeFill
    \/ \E how \in {"ok", "fail", "zero"} : TapePurge(how)

SpecTape == InitTape /\ [][NextTape]_vars

----------------------------------------------------------------------------
(* The parser machine: parse_data_elements on one input, an action per     *)
(* entry, loop iteration and return; then the file object made of the      *)
(* result, matfile_who and matfile_destroy on it.                          *)

WithHeap(h, p) == [f \in DOMAIN p \cup {"heap"} |->
                      IF f = "heap" THEN h ELSE p[f]]
SansHeap(P) == [f \in DOMAIN P \ {"heap"} |-> P[f]]

InitParse ==
    /\ heap = <<>>
    /\ tape = NULL
    /\ ret = NullPtr
    /\ op = Call("none", 0, 0, FALSE, 0, "", NULL, <<>>)
    /\ pushes = <<>>
    /\ input \in Environments
    /\ parse = Idle
    /\ mat = NoMat
    /\ file = NoFile

ParseBegin ==
    /\ parse.status = "start"
    /\ \E P \in {parse_begin(input)} :
           heap' = P.heap /\ parse' = SansHeap(P)
    /\ UNCHANGED <<tvars, input, mat, file>>

ParseElement ==
    /\ parse.status = "loop"
    /\ parse.offset < Len(input.mem)
    /\ \E P \in {WithHeap(heap, parse)} :
       \E Q \in {parse_element(input, P)} :
           heap' = Q.heap /\ parse' = SansHeap(Q)
    /\ UNCHANGED <<tvars, input, mat, file>>

ParseEnd ==
    /\ parse.status = "loop"
    /\ ~(parse.offset < Len(input.mem))
    /\ \E P \in {WithHeap(heap, parse)} :
       \E Q \in {parse_end(input, P)} :
           heap' = Q.heap /\ parse' = SansHeap(Q)
    /\ UNCHANGED <<tvars, input, mat, file>>

\* matfile_read from the return of the parser on.
ReadEnd ==
    /\ parse.status \in {"done", "failed"}
    /\ mat.status = "none"
    /\ \E R \in {matfile_read(input, heap, parse.result, parse.noelements)} :
           /\ heap' = R.heap
           /\ mat' = [mat EXCEPT !.status = IF R.mat = NULL THEN "null"
                                            ELSE "read",
                                 !.obj = R.mat]
    /\ UNCHANGED <<tvars, input, parse, file>>

MatfileWho ==
    /\ mat.status = "read"
    /\ ~mat.asked
    /\ \E R \in {matfile_who(input, heap, mat.obj)} :
           /\ heap' = R.heap
           /\ mat' = [mat EXCEPT !.status = IF R.status = "crash" THEN "crash"
                                            ELSE "read",
                                 !.names = R.ret,
                                 !.asked = TRUE]
    /\ UNCHANGED <<tvars, input, parse, file>>

MatfileDestroy ==
    /\ mat.status = "read"
    /\ \E R \in {matfile_destroy(input, heap, mat.obj)} :
           /\ heap' = R.heap
           /\ mat' = [mat EXCEPT !.status = "destroyed", !.wild = R.wild]
    /\ UNCHANGED <<tvars, input, parse, file>>

NextParse ==
    \/ ParseBegin \/ ParseElement \/ ParseEnd
    \/ ReadEnd \/ MatfileWho \/ MatfileDestroy

SpecParse == InitParse /\ [][NextParse]_vars

----------------------------------------------------------------------------
(* The reader machine: one process that calls matfile_read on one file      *)
(* after another.  A call is one action, from the read of the header to    *)
(* the return; the heap shown is that of the last call, the blocks of       *)
(* earlier calls being the caller's.                                        *)

InitRead ==
    /\ heap = <<>>
    /\ tape = NULL
    /\ ret = NullPtr
    /\ op = Call("none", 0, 0, FALSE, 0, "", NULL, <<>>)
    /\ pushes = <<>>
    /\ input = [mem |-> <<>>, junk |-> 0, libc |-> "glibc"]
    /\ parse = Idle
    /\ mat = NoMat
    /\ file = NoFile

CanRead == file.reads < MaxReads /\ file.status # "crash"

\* matfile_read on a file of a header and the data E.mem.
MatfileRead(hdr, E) ==
    /\ CanRead
    /\ \E F \in {read_header(file, hdr)} :
       \E P \in {parse_data_elements(E)} :
          IF P.status = "crash"
          THEN /\ heap' = P.heap
               /\ mat' = NoMat
               /\ file' = [F EXCEPT !.reads = @ + 1, !.status = "crash"]
               /\ parse' = SansHeap(P)
          ELSE \E R \in {matfile_read(E, P.heap, P.result, P.noelements)} :
               /\ heap' = R.heap
               /\ mat' = [NoMat EXCEPT !.status = IF R.mat = NULL THEN "null"
                                                 ELSE "read",
                                       !.obj = R.mat]
               /\ file' = [F EXCEPT !.reads = @ + 1,
                                    !.status = IF R.mat = NULL THEN "null"
                                               ELSE "read"]
               /\ parse' = SansHeap(P)
    /\ input' = E
    /\ UNCHANGED tvars

\* matfile_read on a file that ends within its header.
MatfileReadShort(E) ==
    /\ CanRead
    /\ \E R \in {read_short(E)} :
          /\ heap' = R.heap
          /\ file' = [file EXCEPT !.reads = @ + 1, !.status = R.status]
    /\ mat' = NoMat
    /\ parse' = Idle
    /\ input' = E
    /\ UNCHANGED tvars

NextRead ==
    \/ \E hdr \in Headers, E \in ReadEnvironments : MatfileRead(hdr, E)
    \/ \E E \in [mem : {<<>>}, junk : {0, 1}, libc : {"glibc", "other"}] :
          MatfileReadShort(E)

SpecRead == InitRead /\ [][NextRead]_vars

----------------------------------------------------------------------------
(* Claims about the tape.                                                  *)

RECURSIVE Sum(_)
Sum(s) == IF s = <<>> THEN 0 ELSE s[1] + Sum(Tail(s))

Front(s) == SubSeq(s, 1, Len(s) - 1)

Max(a, b) == IF a >= b THEN a ELSE b

\* C1: in every reachable state of a live tape the used length does not
\* exceed the capacity (cur_length <= max_length).
C1_UsedWithinCapacity ==
    (tape # NULL /\ op.name # "pushfail") =>
        TapeOf(heap, tape).cur_length <= TapeOf(heap, tape).max_length

\* C2: after pushes only (no pop, no failed allocation) the used length is
\* the sum of the sizes pushed, and the last push returned the position at
\* the sum of the sizes pushed before it, in the tape's current buffer.
C2_PushesAddUp ==
    (tape # NULL /\ op.clean) =>
        /\ TapeOf(heap, tape).cur_length = Sum(pushes)
        /\ op.name = "push" =>
              ret = [blk |-> TapeOf(heap, tape).elems,
                     off |-> Sum(Front(pushes))]

\* Three pushes of different non-zero sizes, the tape having grown.
C2_Witness ==
    /\ tape # NULL /\ op.clean /\ op.name = "push"
    /\ Len(pushes) = 3 /\ pushes[1] > 0 /\ pushes[2] > pushes[1]
    /\ pushes[3] > 0
    /\ TapeOf(heap, tape).max_length > heap[2].size

\* C3: tape_purge returns a buffer of exactly the used length holding the
\* tape's contents, destroys the tape object, leaves the returned buffer
\* live, and releases no block twice (also when shrinking fails).
C3_PurgeContract ==
    op.name = "purge" =>
        /\ \A b \in 1..Len(heap) : heap[b].frees <= 1
        /\ heap[op.was].frees = 1
        /\ op.how # "fail" =>
              /\ ret.blk # NULL
              /\ heap[ret.blk].frees = 0
              /\ heap[ret.blk].size = op.before
              /\ \A i \in 1..op.before :
                    i <= Len(op.content) /\ heap[ret.blk].val[i] = op.content[i]

\* C4: tape_pop(n) sets the used length to max(used - n, 0), never below
\* zero, and leaves the capacity and the buffer as they were.
C4_PopClamps ==
    [][ (op'.name = "pop" /\ op'.count = op.count + 1) =>
          LET T == TapeOf(heap, tape)
              U == TapeOf(heap', tape')
          IN  /\ U.cur_length = Max(T.cur_length - op'.n, 0)
              /\ U.cur_length >= 0
              /\ U.max_length = T.max_length
              /\ U.elems = T.elems
              /\ heap'[U.elems] = heap[T.elems]
              /\ Len(heap') = Len(heap) ]_vars

\* A pop of more than the used length of a non-empty tape: clamped to zero.
C4_Witness ==
    /\ tape # NULL /\ op.name = "pop"
    /\ op.before > 0 /\ op.n > op.before
    /\ TapeOf(heap, tape).cur_length = 0

----------------------------------------------------------------------------
(* Claims about parse_data_elements.                                       *)

Length == Len(input.mem)

\* The tag of the iteration that started at input index `at`, as the
\* parser read it.
TypeAt(at) == U32(Slice(input.mem, at, 4, input.junk))
SizeAt(at) == U32(Slice(input.mem, at + 4, 4, input.junk))

\* The parse returned an element list.
Succeeded == parse.status = "done" /\ parse.result # NULL

\* The slots of the element list: the tape's buffer while the loop runs,
\* the returned buffer after it.
Elements ==
    IF parse.status = "done"
    THEN IF parse.result = NULL THEN <<>> ELSE heap[parse.result].val
    ELSE IF parse.tape = NULL THEN <<>>
    ELSE heap[heap[parse.tape].val.elems].val

\* Iterations that stored an element: all but a last, failed one.
StoredIters == 1..Min(parse.noelements, Len(parse.iters))

\* C5: truncated input is rejected.  No input byte at an index >= length is
\* read, and a parse that returns an element list had, at every iteration,
\* 8 bytes for the tag and, for a large element, its declared byte count
\* (with its padding when it is not compressed) within the input.
C5_TruncatedRejected ==
    /\ parse.hiread <= Length
    /\ Succeeded =>
         \A i \in 1..Len(parse.iters) :
            LET it == parse.iters[i]
            IN  /\ it.at + SizeofTag <= Length
                /\ it.kind = "large" =>
                     it.at + SizeofTag + SizeAt(it.at)
                         + Padding(SizeAt(it.at)) <= Length
                /\ it.kind = "compressed" =>
                     it.at + SizeofTag + SizeAt(it.at) <= Length

\* C6: a parse that returns an element list holds no matrix element whose
\* array is null.
C6_NoNullArray ==
    Succeeded =>
        \A i \in StoredIters :
            Elements[i].type = MFDT_MATRIX => Elements[i].data.blk # NULL

\* The class in the array flags of the matrix whose tag is at `at`.
ClassAt(at) == Slice(input.mem, at + 2 * SizeofTag, 1, input.junk)[1]

\* C7: for a matrix whose array flags encode a class from cell to sparse
\* (1..5), parse_array returns no array.
C7_UnsupportedClassFails ==
    \A i \in StoredIters :
        LET it == parse.iters[i]
        IN  (/\ it.kind = "large"
             /\ TypeAt(it.at) = MFDT_MATRIX
             /\ ClassAt(it.at) >= MFMX_CELL_CLASS
             /\ ClassAt(it.at) <= MFMX_SPARSE_CLASS)
            => Elements[i].data.blk = NULL

\* The exact product of the dimensions kept in a dims block, as a 16-byte
\* two's complement number.
RECURSIVE TrueCount(_, _)
TrueCount(dims, n) ==
    IF n = 0 THEN Limbs(1, 16)
    ELSE Mul(TrueCount(dims, n - 1),
             SignExtend(SubSeq(dims, 4 * n - 3, 4 * n), 16))

\* A numerical part whose tag is at offset `at` of the matrix payload
\* starting at `from` is consistent with the dimensions: its type is
\* numeric and its declared size is the type's size times their product.
Consistent(from, at, dims) ==
    LET type == Word(input, heap, InputPtr(from), at)
        size == Word(input, heap, InputPtr(from), at + 4)
    IN  /\ matfile_is_numerical(type)
        /\ Limbs(size, 16)
             = Mul(Limbs(data_type_size(type), 16),
                   TrueCount(dims, Len(dims) \div 4))

\* C8: an array returned for a matrix of a numeric class has a real part,
\* and an imaginary part when there is one, of a numeric type and of a
\* declared size equal to the type's size times the product of the
\* dimensions.
C8_SizeMismatchFails ==
    \A i \in StoredIters :
        LET it   == parse.iters[i]
            from == it.at + SizeofTag
            H    == array_header(input, heap, InputPtr(from))
            arr  == heap[Elements[i].data.blk].val
            dims == heap[arr.dims].val
        IN  (/\ it.kind = "large"
             /\ TypeAt(it.at) = MFDT_MATRIX
             /\ ClassAt(it.at) >= MFMX_DOUBLE_CLASS
             /\ ClassAt(it.at) <= MFMX_UINT64_CLASS
             /\ Elements[i].data.blk # NULL)
            => /\ Consistent(from, H.off5, dims)
               /\ arr.pi # NULL =>
                    Consistent(from, H.off5 + SizeofTag + heap[arr.pr].size,
                               dims)

\* What an element holds: the bytes of a flat element, cut at its declared
\* size, and the fields of an array.
Content(h, el) ==
    IF el.type # MFDT_MATRIX
    THEN IF el.data.blk = NULL THEN <<"null">>
         ELSE <<"flat", SubSeq(h[el.data.blk].val, 1,
                               Min(el.size, Len(h[el.data.blk].val)))>>
    ELSE IF el.data.blk = NULL THEN <<"null">>
    ELSE LET a == h[el.data.blk].val
             Block(b) == IF b \in {NULL, Uninit} THEN <<b>> ELSE h[b].val
         IN  <<"array", a.flags, a.nodims, Block(a.dims), Block(a.name),
               Block(a.pr), Block(a.pi)>>

\* The large elements the round trip is checked on: each parses on its own.
WellFormed ==
    { ElInt8x5, ElDouble, ElZeros32, ElZeros300, ElEmpty,
      MxDouble, MxInt8x8, MxComplex }

\* The element a compressed element at `at` wraps.
Wrapped(at) ==
    inflate(ZStream(SubSeq(input.mem, at + SizeofTag + 1,
                           at + SizeofTag + SizeAt(at))),
            255 * SizeAt(at)).out

\* The first element of input `mem` parsed on its own.
Direct(mem) ==
    Let(parse_data_elements([input EXCEPT !.mem = mem]), LAMBDA D :
        [el |-> D.heap[D.result].val[1], heap |-> D.heap])

\* C9: a compressed element wrapping a well-formed large element parses to
\* the element that the wrapped one parses to on its own: same type, same
\* declared size, same payload; and the buffer of a flat one has the
\* inflated declared size (with its padding at most), not the compressed.
C9_CompressedRoundTrip ==
    \A i \in 1..Len(parse.iters) :
        LET it == parse.iters[i]
        IN  (/\ it.kind = "compressed"
             /\ it.at + SizeofTag + SizeAt(it.at) <= Length
             /\ Wrapped(it.at) \in WellFormed)
            => /\ i \in StoredIters
               /\ LET el == Elements[i]
                      D  == Direct(Wrapped(it.at))
                  IN  /\ el.type = D.el.type
                      /\ el.size = D.el.size
                      /\ Content(heap, el) = Content(D.heap, D.el)
                      /\ el.type # MFDT_MATRIX =>
                           heap[el.data.blk].size
                               \in {el.size, el.size + Padding(el.size)}

\* C10: an iteration on a small element moves the cursor by 8, one on an
\* uncompressed large element of declared size s by 8 + s + ((8 - s mod 8)
\* mod 8); and as long as no compressed element was met, an iteration
\* starts at a multiple of 8.
C10_CursorAdvance ==
    [][Len(parse'.iters) = Len(parse.iters) + 1 =>
         LET it == parse'.iters[Len(parse'.iters)]
             s  == SizeAt(it.at)
         IN  /\ it.at = parse.offset
             /\ it.kind = "small" => parse'.offset = parse.offset + 8
             /\ it.kind = "large" =>
                  parse'.offset = parse.offset + 8 + s + ((8 - (s % 8)) % 8)
             /\ (\A j \in 1..Len(parse'.iters) :
                    parse'.iters[j].kind # "compressed")
                => parse.offset % 8 = 0]_vars

\* A small element, then an int8 element of declared size 5 that moved the
\* cursor from 8 to 24.
C10_Witness ==
    /\ parse.iters = <<[at |-> 0, kind |-> "small"],
                       [at |-> 8, kind |-> "large"]>>
    /\ SizeAt(8) = 5
    /\ parse.offset = 24
    /\ parse.status = "done"

----------------------------------------------------------------------------
(* Claims about the file object.                                           *)

\* The indexes of the matrix elements of the element list, in order.
MatrixIndexes ==
    SelectSeq([i \in 1..Min(parse.noelements, Len(Elements)) |-> i],
              LAMBDA i : Elements[i].type = MFDT_MATRIX)

\* The name of the matrix whose tag is at `at`, as the input holds it,
\* closed by a zero byte.
NameAt(at) ==
    LET H == array_header(input, heap, InputPtr(at + SizeofTag))
    IN  Slice(input.mem, at + SizeofTag + H.off4, H.nsize, input.junk) \o <<0>>

\* C11: matfile_who on a parsed file returns a list that holds, for each
\* matrix element and in file order, the name of its array, then a null
\* pointer, and nothing else: its length is the number of matrix elements
\* plus one.
C11_WhoListsMatrices ==
    mat.asked =>
        /\ mat.status # "crash"
        /\ mat.names # NULL
        /\ LET list == heap[mat.names].val
               idx  == MatrixIndexes
           IN  /\ Len(list) = Len(idx) + 1
               /\ heap[mat.names].size = SizeofPointer * (Len(idx) + 1)
               /\ list[Len(list)] = NULL
               /\ \A k \in 1..Len(idx) :
                     LET el == Elements[idx[k]]
                     IN  /\ el.data.blk # NULL
                         /\ list[k] = heap[el.data.blk].val.name
                         /\ parse.iters[idx[k]].kind = "large" =>
                               heap[list[k]].val = NameAt(parse.iters[idx[k]].at)

\* The blocks of a heap that are allocated and not released.
Live(h) == {b \in 1..Len(h) : h[b].frees = 0}

\* C12: no leak on the error path.  When parse_data_elements returns
\* failure no block it allocated is left live; and an iteration in which
\* parse_array returned no array leaves live exactly the blocks that were
\* live before it.
C12_NoLeakOnFailure ==
    [][/\ (parse.status = "loop" /\ parse'.status = "failed") =>
              Live(heap') = {}
       /\ (/\ parse.status = "loop"
           /\ parse'.noelements = parse.noelements + 1
           /\ Elements'[parse'.noelements].type = MFDT_MATRIX
           /\ Elements'[parse'.noelements].data.blk = NULL)
          => Live(heap') = Live(heap)]_vars

\* The blocks a file object owns: itself, its element list, the payload
\* buffer of each flat large element and, for each matrix element, the
\* array with its dims, its name and its real and imaginary parts.
Owned(h, m) ==
    LET els == h[h[m].val.elements].val
        Of(el) ==
            IF el.data.blk = NULL THEN {}
            ELSE IF el.type # MFDT_MATRIX THEN {el.data.blk}
            ELSE LET a == h[el.data.blk].val
                 IN  {el.data.blk}
                         \cup ({a.dims, a.name, a.pr, a.pi} \ {NULL, Uninit})
    IN  {m, h[m].val.elements}
            \cup UNION {Of(els[i]) : i \in 1..h[m].val.noelements}

\* C13: matfile_destroy on a parsed file releases every block the file
\* object owns, each of them live until then, exactly once; it releases
\* no other block and calls free on nothing that is not a block.
C13_DestroyReleasesOnce ==
    [][(mat.status = "read" /\ mat'.status = "destroyed") =>
          /\ mat'.wild = 0
          /\ Len(heap') = Len(heap)
          /\ \A b \in 1..Len(heap) :
                IF b \in Owned(heap, mat.obj)
                THEN heap[b].frees = 0 /\ heap'[b].frees = 1
                ELSE heap'[b].frees = heap[b].frees]_vars

\* The tag read at input index `at`, as an element.
TagAt(at) ==
    [type |-> TypeAt(at), size |-> SizeAt(at), data |-> NullPtr,
     noelements |-> 0]

\* C14: an iteration takes its tag for a small element exactly when the
\* 16-bit size (bytes 0..1) and the 16-bit type (bytes 2..3) are both
\* non-zero; matfile_is_large is the complement of matfile_is_small; and a
\* tag whose 32-bit type is in 1..18 is large.
C14_SmallLargeTags ==
    \A i \in 1..Len(parse.iters) :
        LET it == parse.iters[i]
            b  == Slice(input.mem, it.at, 4, input.junk)
            size16 == b[1] + 256 * b[2]
            type16 == b[3] + 256 * b[4]
        IN  /\ (it.kind = "small") = (size16 # 0 /\ type16 # 0)
            /\ matfile_is_small(TagAt(it.at)) = (it.kind = "small")
            /\ matfile_is_large(TagAt(it.at)) = (it.kind # "small")
            /\ TypeAt(it.at) \in 1..18 => it.kind # "small"

\* The tag [size=4][type=6] was taken for small, then the tag
\* [type=9][size=8] for large.
C14_Witness ==
    /\ Len(parse.iters) = 2
    /\ Slice(input.mem, parse.iters[1].at, 4, input.junk) = <<4, 0, 6, 0>>
    /\ parse.iters[1].kind = "small"
    /\ TypeAt(parse.iters[2].at) = MFDT_DOUBLE
    /\ SizeAt(parse.iters[2].at) = 8
    /\ parse.iters[2].kind = "large"

\* The block `part` has as many bytes as the size of the type in the tag
\* at offset `at` of the matrix payload starting at `from`, times the exact
\* product of the dimensions.
Sized(part, from, at, dims) ==
    Limbs(heap[part].size, 16)
        = Mul(Limbs(data_type_size(Word(input, heap, InputPtr(from), at)), 16),
              TrueCount(dims, Len(dims) \div 4))

\* C15: the real part of an array returned by parse_array, and its
\* imaginary part when it has one, has a byte size equal to the element
\* size of its type times the product, as an unbounded integer, of the
\* array's dimensions.
C15_PartSizeIsProduct ==
    \A i \in StoredIters :
        LET it   == parse.iters[i]
            from == it.at + SizeofTag
            H    == array_header(input, heap, InputPtr(from))
            arr  == heap[Elements[i].data.blk].val
            dims == heap[arr.dims].val
        IN  (/\ it.kind = "large"
             /\ TypeAt(it.at) = MFDT_MATRIX
             /\ Elements[i].data.blk # NULL
             /\ arr.pr \notin {NULL, Uninit})
            => /\ Sized(arr.pr, from, H.off5, dims)
               /\ arr.pi \notin {NULL, Uninit} =>
                    Sized(arr.pi, from,
                          H.off5 + SizeofTag + heap[arr.pr].size, dims)

\* The 32-bit type of the tag that the stream of the compressed element at
\* `at` inflates to.
InnerType(at) == U32(SubSeq(Wrapped(at), 1, 4))

\* C16: a large tag whose type is outside 1..18 ends the parse in failure,
\* at top level and when it is the tag a compressed element inflates to;
\* and every large element of a returned list has a type in 1..18.
C16_UnknownTypeFails ==
    /\ \A i \in 1..Len(parse.iters) :
          LET it == parse.iters[i]
              ends == i = Len(parse.iters) /\ parse.status = "failed"
          IN  /\ (it.kind # "small" /\ TypeAt(it.at) \notin 1..18) =>
                    it.kind = "badtype" /\ ends
              /\ (/\ it.kind = "compressed"
                  /\ it.at + SizeofTag + SizeAt(it.at) <= Length
                  /\ Len(Wrapped(it.at)) >= 4
                  /\ InnerType(it.at) \notin 1..18) => ends
    /\ Succeeded =>
          \A i \in StoredIters :
              parse.iters[i].kind # "small" => Elements[i].type \in 1..18

\* A tag of type 19 after a stored element made the parse fail.
C16_Witness ==
    /\ parse.status = "failed"
    /\ Len(parse.iters) = 2
    /\ parse.noelements = 1
    /\ parse.iters[2].kind = "badtype"
    /\ TypeAt(parse.iters[2].at) = 19

\* C17: an array is returned for a matrix only if its dimensions
\* subelement has the type MFDT_INT32 and a declared size that is a
\* positive multiple of 4; the array then has nodims = size / 4 >= 1 and
\* its dims are the size / 4 values of the payload, in order.
C17_DimsSubelement ==
    \A i \in StoredIters :
        LET it   == parse.iters[i]
            from == it.at + SizeofTag
            H    == array_header(input, heap, InputPtr(from))
            arr  == heap[Elements[i].data.blk].val
        IN  (/\ it.kind = "large"
             /\ TypeAt(it.at) = MFDT_MATRIX
             /\ Elements[i].data.blk # NULL)
            => /\ H.dtype = MFDT_INT32
               /\ H.dsize > 0
               /\ H.dsize % 4 = 0
               /\ arr.nodims = H.dsize \div 4
               /\ arr.nodims >= 1
               /\ \A k \in 1..arr.nodims :
                     DimAt(heap, arr.dims, k)
                         = Slice(input.mem, from + H.off2 + 4 * (k - 1), 4,
                                 input.junk)

\* C18: when decompress_data_element has accepted the tag found by the
\* first inflate pass, the size reserved for the second pass is the size
\* that tag declares minus the payload bytes the first pass produced past
\* the tag, and is not negative (not wrapped); and inflate writes nothing
\* past the end of the scratch buffer.
C18_SecondPassReservation ==
    [][(/\ Len(parse'.iters) = Len(parse.iters) + 1
        /\ parse'.iters[Len(parse'.iters)].kind = "compressed") =>
          LET at   == parse.offset
              elem == [TagAt(at) EXCEPT !.data = InputPtr(at + SizeofTag)]
              push == tape_push(heap, parse.tape, SizeofElement, TRUE)
              dec  == decompress_data_element(input, push.heap, elem)
              r1   == inflate(ZStream(Slice(input.mem, at + SizeofTag,
                                            elem.size, input.junk)),
                              BufferSize(elem.size))
              tag  == Slice(r1.out, 0, SizeofTag, input.junk)
              subtype  == U32(SubSeq(tag, 1, 4))
              subsize  == U32(SubSeq(tag, 5, 8))
              produced == Len(r1.out) - SizeofTag
          IN  (r1.code >= Z_OK /\ subtype \in 1..18) =>
                 /\ produced >= 0
                 /\ dec.avail_size = produced
                 /\ dec.rest_size = subsize - produced
                 /\ dec.rest_size >= 0
                 /\ ~dec.hwrite
                 /\ ~parse'.hwrite]_vars

\* C19: a compressed element that was stored, with declared byte count c
\* and its tag at index a, leaves the cursor at a + 8 + c: the next
\* iteration, if there is one, reads its tag there.
C19_CompressedAdvance ==
    \A i \in StoredIters :
        LET it   == parse.iters[i]
            next == it.at + 8 + SizeAt(it.at)
        IN  it.kind = "compressed" =>
                IF i < Len(parse.iters) THEN parse.iters[i + 1].at = next
                ELSE parse.offset = next

\* A compressed element of 22 bytes at index 0, then a small element whose
\* tag was read at index 30.
C19_Witness ==
    /\ parse.status = "done"
    /\ parse.noelements = 2
    /\ parse.iters = <<[at |-> 0, kind |-> "compressed"],
                       [at |-> 30, kind |-> "small"]>>
    /\ SizeAt(0) = 22
    /\ parse.offset = 38

----------------------------------------------------------------------------
(* Claims about the growth of the tape.                                    *)

RECURSIVE Pow2(_)
Pow2(k) == IF k = 0 THEN 1 ELSE 2 * Pow2(k - 1)

\* C20: between the calls made on a live tape the capacity changes only in
\* a tape_push of n bytes with used + n > capacity, and then to twice its
\* value; such a push always doubles it, a push that fits and a tape_pop
\* leave it as it is; so it never decreases and is the initial capacity
\* times a power of two.
C20_GrowthPolicy ==
    [][(tape # NULL /\ tape' = tape) =>
          LET T == TapeOf(heap, tape)
              U == TapeOf(heap', tape')
              called  == op'.count = op.count + 1
              pushing == called /\ op'.name \in {"push", "pushfail"}
              exceeds == T.cur_length + op'.n > T.max_length
          IN  /\ U.max_length # T.max_length => pushing /\ exceeds
              /\ (pushing /\ exceeds) => U.max_length = 2 * T.max_length
              /\ (pushing /\ ~exceeds) => U.max_length = T.max_length
              /\ (called /\ op'.name = "pop") => U.max_length = T.max_length
              /\ U.max_length >= T.max_length
              /\ \E k \in 0..MaxOps :
                    U.max_length = heap[2].size * Pow2(k)]_vars

\* A tape created with 2 bytes that two pushes have grown to 8.
C20_Witness ==
    /\ tape # NULL
    /\ op.name = "push"
    /\ heap[2].size = 2
    /\ Len(pushes) = 2
    /\ TapeOf(heap, tape).max_length = 8

\* The matrix payload of `len` bytes starting at `from` has the header of
\* a numeric array: the three leading subelements have their types and
\* sizes and lie, with the tag of the real part, within the payload.
NumericHeader(from, len, H) ==
    /\ H.ftype = MFDT_UINT32 /\ H.fsize = 8
    /\ H.dtype = MFDT_INT32 /\ H.dsize > 0 /\ H.dsize % 4 = 0
    /\ H.ntype = MFDT_INT8
    /\ ClassAt(from - SizeofTag) >= MFMX_DOUBLE_CLASS
    /\ ClassAt(from - SizeofTag) <= MFMX_UINT64_CLASS
    /\ H.off5 + SizeofTag <= len

\* The offset, in the matrix payload, of the first byte after the real
\* part and its alignment padding.
RealEnd(from, H) ==
    LET size == Word(input, heap, InputPtr(from), H.off5 + 4)
    IN  H.off5 + SizeofTag + size + Padding(size)

\* C21: for a matrix of a numeric class, an imaginary part is decoded
\* exactly when bytes of the matrix payload remain beyond the real part and
\* its padding.  A payload that ends with a real part consistent with the
\* dimensions, whatever its size, is decoded to an array with pr set and
\* pi absent; and a decoded imaginary part has its tag and its payload
\* within the matrix payload.
C21_ImaginaryPart ==
    \A i \in StoredIters :
        LET it   == parse.iters[i]
            from == it.at + SizeofTag
            len  == SizeAt(it.at)
            H    == array_header(input, heap, InputPtr(from))
            dims == Slice(input.mem, from + H.off2, H.dsize, input.junk)
            arr  == heap[Elements[i].data.blk].val
            imag == H.off5 + SizeofTag + heap[arr.pr].size
        IN  (/\ it.kind = "large"
             /\ TypeAt(it.at) = MFDT_MATRIX
             /\ NumericHeader(from, len, H))
            => /\ (/\ Consistent(from, H.off5, dims)
                   /\ RealEnd(from, H) = len)
                  => /\ Elements[i].data.blk # NULL
                     /\ arr.pr # NULL
                     /\ arr.pi = NULL
               /\ Elements[i].data.blk # NULL
                  => /\ (arr.pi # NULL) = (RealEnd(from, H) < len)
                     /\ arr.pi # NULL =>
                          imag + SizeofTag + heap[arr.pi].size <= len

----------------------------------------------------------------------------
(* Claims about matfile_read.                                              *)

\* C22: once a header was read, the static swap flag is set exactly when
\* the marker of the header read last is the reversed one (the bytes "MI",
\* 0x494d as a 16-bit number), whatever the markers of the headers read
\* before; the endianness handed to the parser is MFEND_SWITCH in that case
\* and MFEND_SAME otherwise; and the version stored in the header is the
\* version read with its two bytes exchanged exactly when the flag is set.
C22_ByteOrder ==
    file.seen # <<>> =>
        LET last     == file.seen[Len(file.seen)]
            reversed == last = <<77, 73>>
        IN  /\ file.swap_bytes = reversed
            /\ file.endianness = IF reversed THEN MFEND_SWITCH ELSE MFEND_SAME
            /\ file.version = IF file.swap_bytes
                              THEN 256 * file.header[1] + file.header[2]
                              ELSE file.header[1] + 256 * file.header[2]

\* A file with the reversed marker was read, then a file with the native
\* marker: the flag is clear and the version 0x0100 is stored as read.
C22_Witness ==
    /\ file.reads = 2
    /\ file.seen = << <<77, 73>>, <<73, 77>> >>
    /\ ~file.swap_bytes
    /\ file.header = <<0, 1, 73, 77>>
    /\ file.version = 256
    /\ file.endianness = MFEND_SAME
    /\ file.status = "read"

----------------------------------------------------------------------------
(* Claims about the loop of parse_data_elements.                           *)

\* The cursor moves by at least 8 from one iteration to the next, and the
\* iterations number at most ceil(length / 8); a returned list has one
\* entry per iteration, noelements of them, in the order of the input.
Counted ==
    /\ \A i \in 1..Len(parse.iters) - 1 :
          parse.iters[i + 1].at >= parse.iters[i].at + SizeofTag
    /\ (parse.iters # <<>> /\ parse.status \in {"loop", "done"})
         => parse.offset >= parse.iters[Len(parse.iters)].at + SizeofTag
    /\ 8 * Len(parse.iters) <= Length + 7
    /\ 8 * parse.noelements <= Length + 7
    /\ Succeeded =>
          /\ parse.noelements = Len(parse.iters)
          /\ Len(heap[parse.result].val) = parse.noelements
          /\ heap[parse.result].size = parse.noelements * SizeofElement
          /\ \A i \in 1..parse.noelements :
                parse.iters[i].kind # "compressed"
                   => /\ Elements[i].type = TypeAt(parse.iters[i].at)
                      /\ Elements[i].size = SizeAt(parse.iters[i].at)

\* The loop has ended: the cursor reached the length, or NULL was returned
\* from inside the loop.
Stopped == parse.status \in {"done", "failed"}

\* The parser can take its next step: ParseBegin before the loop, and in
\* the loop ParseElement or ParseEnd, as the cursor is below the length
\* or not.
Running ==
    \/ parse.status = "start"
    \/ parse.status = "loop" /\ parse.offset < Length
    \/ parse.status = "loop" /\ ~(parse.offset < Length)

\* C23: on every input the loop of parse_data_elements ends, by the cursor
\* reaching the length or by a failure: every iteration moves the cursor by
\* at least 8, so there are at most ceil(length / 8) of them, and until the
\* loop has ended the parser can take its next step.  On success the
\* iterations number noelements, the returned list holds noelements
\* entries in input order, and noelements is at most ceil(length / 8).
C23_TerminationAndCount == Counted /\ (Stopped \/ Running)

====
